---- MODULE Spec2Model ----
(***************************************************************************)
(* A model of the page analyzer of tharaka70/web_analyzer:                 *)
(*   FetchAndAnalyze      (fetch, validate, extract, probe, report)        *)
(*   checkLinkAccessibility (bounded concurrent HEAD/GET probes)           *)
(* The analyzer is modelled from the revision the tests exercise (the one   *)
(* with the GET fallback and the <link> elements).  The probe goroutines    *)
(* are anonymous, so the running goroutines are a bag of goroutine states.  *)
(* httpClient.Do only returns *url.Error values, so a failed request is     *)
(* given by the kind of its url.Error.                                      *)
(***************************************************************************)
EXTENDS Bags, FiniteSets, Integers, Sequences, TLC

VARIABLES
  phase,        \* position of FetchAndAnalyze ("none": it is not on the stack)
  fetches,      \* number of http.Get(pageURL) calls made
  resp,         \* the page response held by FetchAndAnalyze
  failure,      \* the *AnalysisError returned, as <<>> or <<error>>
  result,       \* the *AnalysisResult returned, as <<>> or <<report>>
  doc,          \* the parsed document: its nodes in document order
  cursor,       \* next node of doc the traversal f visits
  linksToTest,  \* FetchAndAnalyze's linksToTest
  counts,       \* result.InternalLinksCount / result.ExternalLinksCount
  HTMLVersion,  \* result.HTMLVersion
  PageTitle,    \* result.PageTitle
  HeadingsCount, \* result.HeadingsCount, a map from the tags found to their number
  ContainsLoginForm, \* result.ContainsLoginForm
  cpc,          \* position of checkLinkAccessibility's own goroutine
  links,        \* the argument of checkLinkAccessibility
  idx,          \* index of the range loop over links
  wg,           \* sync.WaitGroup counter
  semaphore,    \* number of elements in the buffered channel
  mu,           \* TRUE while the mutex is held
  inaccessible, \* the shared slice of InaccessibleLinkInfo
  tasks,        \* bag of the running probe goroutines
  finished,     \* bag of the probe goroutines that have ended (history)
  servers,      \* how the probed hosts answer in this run
  request,      \* the *http.Request given to analyzeHandler
  hpc,          \* position of analyzeHandler ("none": it is not on the stack)
  rendered      \* what analyzeHandler has written, as <<>> or <<response>>

vars == <<phase, fetches, resp, failure, result, doc, cursor, linksToTest, counts,
          HTMLVersion, PageTitle, HeadingsCount, ContainsLoginForm,
          cpc, links, idx, wg, semaphore, mu, inaccessible, tasks, finished, servers,
          request, hpc, rendered>>

handlerVars == <<request, hpc, rendered>>
extracted == <<HTMLVersion, PageTitle, HeadingsCount, ContainsLoginForm>>
fetchVars == <<phase, fetches, resp, failure, result, doc, cursor, linksToTest, counts,
               extracted>>
checkVars == <<cpc, links, idx, wg, semaphore, mu, inaccessible, tasks, finished>>

-----------------------------------------------------------------------------
(* Bounds of the model *)

\* longest list handed directly to checkLinkAccessibility with arbitrary servers
MaxLinks == 2
\* longest document (in href-bearing elements) given to FetchAndAnalyze
MaxNodes == 2
\* how many links beyond the concurrency limit the long lists have
Over == 1
\* most descendants (inputs and buttons) of a form
MaxControls == 3
\* longest list with arbitrary servers in the runs checked for termination
MaxFairLinks == 1

-----------------------------------------------------------------------------
(* Program constants *)

concurrencyLimit == 10

-----------------------------------------------------------------------------
(* Values *)

pageURL == "http://a/"

\* absolute link strings; NewRequest cannot parse the last one
URLs == {"http://a/p", "http://b/timeout", "%zz"}

Hrefs == {"#top", "/p", "http://b/timeout", ":bad"}

Nodes == {[tag |-> "a", href |-> h] : h \in Hrefs}

NetErr(kind) == [err |-> kind, status |-> 0]
Status(s) == [err |-> "", status |-> s]
NoResp == [err |-> "-", status |-> 0]

ErrKinds == {"timeout", "refused", "no such host"}
HeadStatuses == {200, 404, 405}
GetStatuses == {200, 404}

SeqsUpTo(S, n) == UNION {[1..k -> S] : k \in 0..n}

BagSize(b, P(_)) == BagCardinality([x \in {y \in DOMAIN b : P(y)} |-> b[x]])

-----------------------------------------------------------------------------
(* The probed hosts.  "any": every request may get any answer.  The other    *)
(* kinds are the deterministic mock servers of TestCheckLinkAccessibility.   *)

ServerKinds == {"any", "notFound", "headFailGetOk"}

HeadAnswers ==
  CASE servers = "notFound" -> {Status(404)}
    [] servers = "headFailGetOk" -> {Status(405)}
    [] OTHER -> {NetErr(k) : k \in ErrKinds} \cup {Status(s) : s \in HeadStatuses}

GetAnswers ==
  CASE servers = "notFound" -> {Status(404)}
    [] servers = "headFailGetOk" -> {Status(200)}
    [] OTHER -> {NetErr("no such host")} \cup {Status(s) : s \in GetStatuses}

-----------------------------------------------------------------------------
(* checkLinkAccessibility: pure parts *)

\* http.NewRequest(method, l, nil) returns no error
CanBuild(l) == l # "%zz"

\* (*url.Error).Error() is Op + " " + URL + ": " + Err, so the text of a failed
\* request holds the URL; these are the words of interest found in it
ErrWords(l, kind) ==
  (IF l = "http://b/timeout" THEN {"timeout"} ELSE {})
    \cup (IF kind \in {"timeout", "refused"} THEN {kind} ELSE {})

ErrText(op, l, kind) == op \o " " \o l \o ": " \o kind

\* only the timeout test, the "refused" test forgotten
HeadErrorOnlyTimeout(l, kind) == "timeout" \in ErrWords(l, kind)

\* strings.Contains(lower(urlErr.Error()), "timeout") || ... "refused"
HeadErrorIsFinal(l, kind) ==
  "timeout" \in ErrWords(l, kind) \/ "refused" \in ErrWords(l, kind)

\* no special case for 405 (the HEAD status is recorded as it is)
NeverGetRetry(s) == FALSE

\* statusCode == 405
NeedsGetRetry(s) == s = 405

\* only 5xx treated as a failure
IsServerError(s) == s >= 500

\* resp.StatusCode >= 400
IsErrorStatus(s) == s >= 400

\* resp.Status
StatusText(s) == ToString(s)

\* a struct literal that leaves the URL field out
InfoWithoutURL(l, code, text) == [URL |-> "", StatusCode |-> code, Error |-> text]

Info(l, code, text) == [URL |-> l, StatusCode |-> code, Error |-> text]

\* a goroutine right after `go func(l string)`
NewTask(l) ==
  [l |-> l, pc |-> "start", reqs |-> <<>>, head |-> NoResp, get |-> NoResp,
   out |-> <<>>, rel |-> 0, seen |-> <<>>]

\* a failure path that returns without appending
FailSilently(t, r) == [t EXCEPT !.pc = "release"]

\* the goroutine leaves the function body with record r to append first
Fail(t, r) == [t EXCEPT !.pc = "lock", !.out = <<r>>]

\* the goroutine leaves the function body with nothing to append
Leave(t) == [t EXCEPT !.pc = "release"]

\* http.NewRequest(GET) and httpClient.Do(reqGet) being issued
StartGet(t) ==
  IF CanBuild(t.l)
    THEN [t EXCEPT !.pc = "get", !.reqs = Append(@, "GET")]
    ELSE Fail(t, Info(t.l, 0, "Failed to create GET request"))

\* a probe that begins with the GET request
GetFirst(t) == StartGet(t)

\* http.NewRequest(HEAD) and httpClient.Do(req) being issued
StartHead(t) ==
  IF CanBuild(t.l)
    THEN [t EXCEPT !.pc = "head", !.reqs = Append(@, "HEAD")]
    ELSE Fail(t, Info(t.l, 0, "Failed to create request"))

\* what the goroutine does with the answer r to its HEAD
AfterHead(t, r) ==
  LET u == [t EXCEPT !.head = r] IN
  IF r.err # ""
    THEN IF HeadErrorIsFinal(t.l, r.err)
           THEN Fail(u, Info(t.l, 0, ErrText("Head", t.l, r.err)))
           ELSE StartGet(u)
    ELSE IF NeedsGetRetry(r.status)
           THEN StartGet(u)
           ELSE IF IsErrorStatus(r.status)
                  THEN Fail(u, Info(t.l, r.status, StatusText(r.status)))
                  ELSE Leave(u)

\* what the goroutine does with the answer r to its GET
AfterGet(t, r) ==
  LET u == [t EXCEPT !.get = r] IN
  IF r.err # ""
    THEN Fail(u, Info(t.l, 0, ErrText("Get", t.l, r.err)))
    ELSE IF IsErrorStatus(r.status)
           THEN Fail(u, Info(t.l, r.status, StatusText(r.status)))
           ELSE Leave(u)

\* a send that never blocks (an unbuffered slot count)
SemaphoreNeverFull == TRUE

\* semaphore <- struct{}{} can proceed
SemaphoreHasRoom == semaphore < concurrencyLimit

\* a release written at the end of the body instead of deferred: the early
\* returns of the failure paths skip it
ReleaseOnSuccessOnly(t) == IF t.out = <<>> THEN 1 ELSE 0

\* slots given back by the deferred func() { <-semaphore }()
DeferredRelease(t) == 1

\* a return that does not wait for the goroutines
WaitSkipped == TRUE

\* wg.Wait() can proceed
WaitGroupIdle == wg = 0

Replace(b, t, u) == (b (-) SetToBag({t})) (+) SetToBag({u})

-----------------------------------------------------------------------------
(* checkLinkAccessibility: the calling goroutine *)

\* if len(links) == 0 { return inaccessible }
CheckEntry ==
  /\ cpc = "entry"
  /\ cpc' = IF Len(links) = 0 THEN "returned" ELSE "loop"
  /\ UNCHANGED <<links, idx, wg, semaphore, mu, inaccessible, tasks, finished>>
  /\ UNCHANGED <<fetchVars, servers, handlerVars>>

\* for _, link := range links { wg.Add(1) ...   or the loop ends
LoopNext ==
  /\ cpc = "loop"
  /\ IF idx <= Len(links)
       THEN wg' = wg + 1 /\ cpc' = "acquire"
       ELSE wg' = wg /\ cpc' = "wait"
  /\ UNCHANGED <<links, idx, semaphore, mu, inaccessible, tasks, finished>>
  /\ UNCHANGED <<fetchVars, servers, handlerVars>>

\* semaphore <- struct{}{}; go func(l string) {...}(link)
Acquire ==
  /\ cpc = "acquire"
  /\ SemaphoreHasRoom
  /\ semaphore' = semaphore + 1
  /\ tasks' = tasks (+) SetToBag({NewTask(links[idx])})
  /\ idx' = idx + 1
  /\ cpc' = "loop"
  /\ UNCHANGED <<links, wg, mu, inaccessible, finished>>
  /\ UNCHANGED <<fetchVars, servers, handlerVars>>

\* wg.Wait(); return inaccessible
Wait ==
  /\ cpc = "wait"
  /\ WaitGroupIdle
  /\ cpc' = "returned"
  /\ UNCHANGED <<links, idx, wg, semaphore, mu, inaccessible, tasks, finished>>
  /\ UNCHANGED <<fetchVars, servers, handlerVars>>

-----------------------------------------------------------------------------
(* checkLinkAccessibility: one probe goroutine *)

TaskStart(t) ==
  /\ t.pc = "start"
  /\ tasks' = Replace(tasks, t, StartHead(t))
  /\ UNCHANGED <<cpc, links, idx, wg, semaphore, mu, inaccessible, finished>>
  /\ UNCHANGED <<fetchVars, servers, handlerVars>>

HeadReturns(t, r) ==
  /\ t.pc = "head"
  /\ tasks' = Replace(tasks, t, AfterHead(t, r))
  /\ UNCHANGED <<cpc, links, idx, wg, semaphore, mu, inaccessible, finished>>
  /\ UNCHANGED <<fetchVars, servers, handlerVars>>

GetReturns(t, r) ==
  /\ t.pc = "get"
  /\ tasks' = Replace(tasks, t, AfterGet(t, r))
  /\ UNCHANGED <<cpc, links, idx, wg, semaphore, mu, inaccessible, finished>>
  /\ UNCHANGED <<fetchVars, servers, handlerVars>>

\* a mutex that never makes a goroutine wait
AlwaysUnlocked == TRUE

\* mu.Lock() can proceed
Unlocked == ~mu

\* an append that forgets the elements already in the slice
Overwritten(slice, out) == out

\* append(inaccessible, InaccessibleLinkInfo{...}) on the slice value read
Appended(slice, out) == slice \o out

\* mu.Lock(), and append's read of the slice
Lock(t) ==
  /\ t.pc = "lock"
  /\ Unlocked
  /\ mu' = TRUE
  /\ tasks' = Replace(tasks, t, [t EXCEPT !.pc = "crit", !.seen = inaccessible])
  /\ UNCHANGED <<cpc, links, idx, wg, semaphore, inaccessible, finished>>
  /\ UNCHANGED <<fetchVars, servers, handlerVars>>

\* inaccessible = <the appended slice>; mu.Unlock(); return
AppendUnlock(t) ==
  /\ t.pc = "crit"
  /\ inaccessible' = Appended(t.seen, t.out)
  /\ mu' = FALSE
  /\ tasks' = Replace(tasks, t, [t EXCEPT !.pc = "release", !.seen = <<>>])
  /\ UNCHANGED <<cpc, links, idx, wg, semaphore, finished>>
  /\ UNCHANGED <<fetchVars, servers, handlerVars>>

\* defer func() { <-semaphore }()
Release(t) ==
  /\ t.pc = "release"
  /\ semaphore' = semaphore - DeferredRelease(t)
  /\ tasks' = Replace(tasks, t, [t EXCEPT !.pc = "wgdone", !.rel = @ + DeferredRelease(t)])
  /\ UNCHANGED <<cpc, links, idx, wg, mu, inaccessible, finished>>
  /\ UNCHANGED <<fetchVars, servers, handlerVars>>

\* a goroutine that ends without telling the WaitGroup
DoneForgotten(n) == n

\* the WaitGroup counter after wg.Done()
WgDone(n) == n - 1

\* defer wg.Done()
Done(t) ==
  /\ t.pc = "wgdone"
  /\ wg' = WgDone(wg)
  /\ tasks' = tasks (-) SetToBag({t})
  /\ finished' = finished (+) SetToBag({[t EXCEPT !.pc = "ended"]})
  /\ UNCHANGED <<cpc, links, idx, semaphore, mu, inaccessible>>
  /\ UNCHANGED <<fetchVars, servers, handlerVars>>

-----------------------------------------------------------------------------
(* net/url on the URL texts of the model *)

\* (*url.URL).Scheme after url.Parse, which lower-cases the scheme
Scheme(u) ==
  CASE u \in {"http://a/", "HTTP://a/", "http:///a", "http://a/p", "http://A/p",
              "http://b/timeout"} -> "http"
    [] u = "https://a/p" -> "https"
    [] u = "ftp://a/" -> "ftp"
    [] OTHER -> ""

\* (*url.URL).Host after url.Parse, which keeps the host as it is written
Host(u) ==
  CASE u \in {"http://a/", "HTTP://a/", "ftp://a/", "http://a/p", "https://a/p"} -> "a"
    [] u = "http://A/p" -> "A"
    [] u = "http://b/timeout" -> "b"
    [] OTHER -> ""

\* (*url.URL).String() of the parsed text
String(u) == IF u = "HTTP://a/" THEN "http://a/" ELSE u

\* url.ParseRequestURI(u) returns no error
ParsesAsRequestURI(u) == u \notin {"", "a b"}

-----------------------------------------------------------------------------
(* package strings on the texts of the model *)

\* a lower-casing that changes nothing
KeepCase(s) == s

\* strings.ToLower
ToLower(s) ==
  CASE s = "HTML" -> "html"
    [] s = "JavaScript:void(0)" -> "javascript:void(0)"
    [] s = "TEL:1" -> "tel:1"
    [] s = "A" -> "a"
    [] s = "Email" -> "email"
    [] OTHER -> s

\* strings.TrimSpace
TrimSpace(s) ==
  CASE s = "  " -> ""
    [] s = " First " -> "First"
    [] OTHER -> s

\* strings.HasPrefix
HasPrefix(s, prefix) ==
  <<s, prefix>> \in {<<"#top", "#">>, <<"javascript:void(0)", "javascript:">>,
                     <<"mailto:x", "mailto:">>, <<"tel:1", "tel:">>}

-----------------------------------------------------------------------------
(* Doctype identifiers.  The text of a public or system identifier is given  *)
(* by what matters to the classifier: whether it is empty, white space only  *)
(* or longer, and which of the substrings of interest it contains.           *)

PublicMarkers ==
  {"XHTML 1.0 Strict", "XHTML 1.0 Transitional", "HTML 4.01//EN", "Strict",
   "HTML 4.01 Transitional//EN"}

SystemMarkers == {"strict.dtd", "loose.dtd"}

\* a text that contains "XHTML 1.0 Strict" contains "Strict"
Consistent(has) == "XHTML 1.0 Strict" \in has => "Strict" \in has

EmptyID == [kind |-> "empty", has |-> {}]
BlankID == [kind |-> "blank", has |-> {}]

IDs(markers) ==
  {EmptyID, BlankID}
    \cup {[kind |-> "text", has |-> h] : h \in {g \in SUBSET markers : Consistent(g)}}

\* strings.TrimSpace on an identifier
TrimID(id) == IF id.kind = "blank" THEN EmptyID ELSE id

\* a containment test that every longer identifier passes
ContainsAnything(id, marker) == id.kind = "text"

\* strings.Contains on an identifier
Contains(id, marker) == marker \in id.has

DoctypeNames == {"", "html", "HTML", "foo"}

\* the doctype nodes: n.Data and the attributes "public" and "system"
Doctypes ==
  [tag : {"!doctype"}, name : DoctypeNames, public : IDs(PublicMarkers),
   system : IDs(SystemMarkers)]

-----------------------------------------------------------------------------
(* Element nodes *)

HeadingTags == {"h1", "h2", "h3", "h4", "h5", "h6"}

\* a title element with its first child, when it has one and it is a text node
Titles == [tag : {"title"}, text : {<<>>, <<" First ">>, <<"Second">>}]

Headings == [tag : {"h1", "h3"}]

ExtractHrefs ==
  {"", "  ", "#top", "JavaScript:void(0)", "mailto:x", "TEL:1",
   "/p", "http://A/p", "https://a/p"}

\* elements with an href attribute: anchors, link elements, and an area element
Anchors ==
  [tag : {"a"}, href : ExtractHrefs]
    \cup [tag : {"link"}, href : {"/p", "mailto:x"}]
    \cup [tag : {"area"}, href : {"/p"}]

Elements == Titles \cup Headings \cup Anchors \cup [tag : {"p"}]

\* the descendants of a form that detectLoginForm looks at: input elements
\* with their type and name, button elements with their type ("": no type)
Inputs ==
  {[tag |-> "input", type |-> "password", name |-> "secret"],
   [tag |-> "input", type |-> "text", name |-> "username"],
   [tag |-> "input", type |-> "Email", name |-> "Email"],
   [tag |-> "input", type |-> "text", name |-> "search"],
   [tag |-> "input", type |-> "tel", name |-> "pin"]}

Buttons == [tag : {"button"}, type : {"submit", "", "button"}]

\* a form element with its descendants in document order
Forms == [tag : {"form"}, sub : SeqsUpTo(Inputs \cup Buttons, MaxControls)]

\* strings.Contains(nameAttr, word)
ContainsWord(name, word) ==
  <<name, word>> \in {<<"username", "user">>, <<"email", "email">>, <<"pin", "pin">>}

\* the value of the href attribute of n, "" when it has none
HrefAttr(n) == IF "href" \in DOMAIN n THEN TrimSpace(n.href) ELSE ""

-----------------------------------------------------------------------------
(* FetchAndAnalyze *)

NoPage == [err |-> "-", status |-> 0, ctype |-> "", parses |-> FALSE]

\* what http.Get(pageURL) can give: an error, or a response with a status, a
\* Content-Type and a body that html.Parse reads to the end or not
PageAnswers ==
  {[err |-> "no such host", status |-> 0, ctype |-> "", parses |-> FALSE]}
    \cup [err : {""}, status : {200, 404},
          ctype : {"text/html; charset=utf-8", "application/json"}, parses : BOOLEAN]

AnalysisError(msg, code) == [Message |-> msg, StatusCode |-> code]

\* a Content-Type check that accepts every type
AnyContentType(ctype) == TRUE

\* strings.Contains(strings.ToLower(contentType), "text/html")
IsHTML(ctype) == ctype = "text/html; charset=utf-8"

\* url.Parse(pageURL) returns no error
BaseParses == pageURL = "http://a/"

\* a skip test that compares the prefixes without lower-casing
IsSkippedExactCase(h) ==
  \/ h = ""
  \/ HasPrefix(h, "#")
  \/ HasPrefix(h, "javascript:")
  \/ HasPrefix(h, "mailto:")
  \/ HasPrefix(h, "tel:")

\* the trimmed hrefs the traversal skips: empty, fragment, javascript:, mailto:, tel:
IsSkipped(h) ==
  \/ h = ""
  \/ HasPrefix(h, "#")
  \/ HasPrefix(ToLower(h), "javascript:")
  \/ HasPrefix(ToLower(h), "mailto:")
  \/ HasPrefix(ToLower(h), "tel:")

\* a resolution that never fails
ResolvesAlways(h) == TRUE

\* baseDomain.Parse(hrefAttr) returns no error
Resolves(h) == h # ":bad"

\* absoluteLink.String()
Resolve(h) == IF h = "/p" THEN "http://a/p" ELSE h

\* absoluteLink.Host == baseDomain.Host && absoluteLink.Scheme == baseDomain.Scheme
IsInternal(u) == Host(u) = Host(pageURL) /\ Scheme(u) = Scheme(pageURL)

\* a counter update that never makes a new entry
IncrementExisting(m, key) ==
  IF key \in DOMAIN m THEN [m EXCEPT ![key] = @ + 1] ELSE m

\* result.HeadingsCount[n.Data]++
Increment(m, key) ==
  IF key \in DOMAIN m THEN [m EXCEPT ![key] = @ + 1] ELSE m @@ (key :> 1)

\* the doctype branch of f: the value of result.HTMLVersion after it
Classify(n, version) ==
  LET publicID == TrimID(n.public)
      systemID == TrimID(n.system)
      doctypeName == ToLower(n.name)
  IN IF doctypeName = "html"
       THEN IF publicID = EmptyID /\ systemID = EmptyID
              THEN "HTML5"
            ELSE IF Contains(publicID, "XHTML 1.0 Strict")
              THEN "XHTML 1.0 Strict"
            ELSE IF Contains(publicID, "XHTML 1.0 Transitional")
              THEN "XHTML 1.0 Transitional"
            ELSE IF Contains(publicID, "HTML 4.01//EN") /\ Contains(publicID, "Strict")
              THEN "HTML 4.01 Strict"
            ELSE IF Contains(publicID, "HTML 4.01 Transitional//EN")
              THEN "HTML 4.01 Transitional"
            ELSE IF Contains(publicID, "HTML 4.01//EN") /\ Contains(systemID, "strict.dtd")
              THEN "HTML 4.01 Strict"
            ELSE IF Contains(publicID, "HTML 4.01 Transitional//EN")
                      /\ Contains(systemID, "loose.dtd")
              THEN "HTML 4.01 Transitional"
            ELSE IF publicID # EmptyID
              THEN "Unknown HTML (with Public ID)"
              ELSE "HTML (Unknown Version)"
       ELSE IF doctypeName # ""
              THEN "Unknown Doctype (" \o doctypeName \o ")"
              ELSE version

NoSignals ==
  [hasPasswordInput |-> FALSE, hasTextLikeInputNamedForLogin |-> FALSE,
   hasPinInput |-> FALSE, hasSubmitButton |-> FALSE]

\* the body of detectLoginForm's f on one node: the signals after it
Inspect(node, sig) ==
  IF node.tag = "input"
    THEN LET typeVal == ToLower(node.type)
             nameAttr == ToLower(node.name)
             isPassword == typeVal = "password"
             isTextLike == typeVal \in {"text", "email"}
             isTel == typeVal = "tel"
             isNumber == typeVal = "number"
         IN [sig EXCEPT
               !.hasPasswordInput = @ \/ isPassword,
               !.hasTextLikeInputNamedForLogin =
                  @ \/ (isTextLike /\ \E w \in {"user", "email", "login", "pass"} :
                                         ContainsWord(nameAttr, w)),
               !.hasPinInput =
                  @ \/ ((isTextLike \/ isTel \/ isNumber \/ isPassword)
                          /\ ContainsWord(nameAttr, "pin"))]
    ELSE IF node.tag = "button"
           THEN [sig EXCEPT !.hasSubmitButton = @ \/ ToLower(node.type) \in {"submit", ""}]
           ELSE sig

\* for c := node.FirstChild; c != nil && !hasSubmitButton; c = c.NextSibling { f(c) }
\* on the descendants in document order: every loop stops once a submit
\* button has been seen
RECURSIVE Walk(_, _, _)
Walk(sub, i, sig) ==
  IF i > Len(sub) \/ sig.hasSubmitButton
    THEN sig
    ELSE Walk(sub, i + 1, Inspect(sub[i], sig))

\* a criterion without the user-like field
PasswordAndSubmit(sig) == sig.hasPasswordInput /\ sig.hasSubmitButton

\* return isUserPassForm || isPinForm
IsLoginForm(sig) ==
  \/ sig.hasTextLikeInputNamedForLogin /\ sig.hasPasswordInput /\ sig.hasSubmitButton
  \/ sig.hasPinInput /\ sig.hasSubmitButton

detectLoginForm(formNode) == IsLoginForm(Walk(formNode.sub, 1, NoSignals))

\* a fallback that leaves the label as it is
NoFallback(version) == version

\* if result.HTMLVersion == "" { result.HTMLVersion = "Unknown or No Doctype" }
Fallback(version) == IF version = "" THEN "Unknown or No Doctype" ELSE version

\* a failure that sends the call back to the fetch
RetryFetch(msg, code) ==
  /\ phase' = "fetching"
  /\ failure' = failure

\* return nil, &AnalysisError{...}
FailWith(msg, code) ==
  /\ phase' = "failed"
  /\ failure' = <<AnalysisError(msg, code)>>

\* a status check that lets client errors through
IsServerFault(status) == status >= 500

\* resp.StatusCode >= 400
IsHTTPError(status) == status >= 400

\* resp, err := http.Get(pageURL), and the checks of err and resp.StatusCode
Fetch(r) ==
  /\ phase = "fetching"
  /\ fetches' = fetches + 1
  /\ resp' = r
  /\ IF r.err # ""
       THEN FailWith("Failed to fetch URL", 0)
       ELSE IF IsHTTPError(r.status)
              THEN FailWith("URL returned HTTP error", r.status)
              ELSE phase' = "validating" /\ failure' = failure
  /\ UNCHANGED <<result, doc, cursor, linksToTest, counts, extracted, checkVars, servers, handlerVars>>

\* the Content-Type check
Validate ==
  /\ phase = "validating"
  /\ IF IsHTML(resp.ctype)
       THEN phase' = "extracting" /\ failure' = failure
       ELSE FailWith("URL is not an HTML page", resp.status)
  /\ UNCHANGED <<fetches, resp, result, doc, cursor, linksToTest, counts, extracted, checkVars, servers, handlerVars>>

\* html.Parse(resp.Body) and url.Parse(pageURL)
ParseBody ==
  /\ phase = "extracting"
  /\ cursor = 0
  /\ IF ~resp.parses
       THEN FailWith("Failed to parse HTML", resp.status) /\ cursor' = cursor
       ELSE IF ~BaseParses
              THEN FailWith("Failed to parse base URL for link analysis", resp.status)
                   /\ cursor' = cursor
              ELSE cursor' = 1 /\ phase' = phase /\ failure' = failure
  /\ UNCHANGED <<fetches, resp, result, doc, linksToTest, counts, extracted, checkVars, servers, handlerVars>>

\* f(n) on the next node of the document
VisitNode ==
  /\ phase = "extracting"
  /\ cursor \in 1..Len(doc)
  /\ LET n == doc[cursor]
         hrefAttr == HrefAttr(n)
         linkStr == Resolve(hrefAttr)
     IN /\ PageTitle' = IF n.tag = "title" /\ n.text # <<>>
                          THEN TrimSpace(n.text[1])
                          ELSE PageTitle
        /\ HeadingsCount' = IF n.tag \in HeadingTags
                              THEN Increment(HeadingsCount, n.tag)
                              ELSE HeadingsCount
        /\ IF n.tag \in {"a", "link"} /\ ~IsSkipped(hrefAttr) /\ Resolves(hrefAttr)
             THEN /\ linksToTest' = Append(linksToTest, linkStr)
                  /\ counts' = IF IsInternal(linkStr)
                                 THEN [counts EXCEPT !.internal = @ + 1]
                                 ELSE [counts EXCEPT !.external = @ + 1]
             ELSE UNCHANGED <<linksToTest, counts>>
        /\ ContainsLoginForm' = IF n.tag = "form" /\ ~ContainsLoginForm
                                  THEN detectLoginForm(n)
                                  ELSE ContainsLoginForm
        /\ HTMLVersion' = IF n.tag = "!doctype"
                            THEN Classify(n, HTMLVersion)
                            ELSE HTMLVersion
  /\ cursor' = cursor + 1
  /\ UNCHANGED <<phase, fetches, resp, failure, result, doc, checkVars, servers, handlerVars>>

\* f(doc) has returned; the fallback for result.HTMLVersion
TraversalEnd ==
  /\ phase = "extracting"
  /\ cursor = Len(doc) + 1
  /\ phase' = "probing"
  /\ HTMLVersion' = Fallback(HTMLVersion)
  /\ UNCHANGED <<fetches, resp, failure, result, doc, cursor, linksToTest, counts>>
  /\ UNCHANGED <<PageTitle, HeadingsCount, ContainsLoginForm, checkVars, servers, handlerVars>>

Report(unreachable) ==
  [HTMLVersion |-> HTMLVersion, PageTitle |-> PageTitle, HeadingsCount |-> HeadingsCount,
   ContainsLoginForm |-> ContainsLoginForm,
   InternalLinksCount |-> counts.internal, ExternalLinksCount |-> counts.external,
   InaccessibleLinks |-> unreachable]

\* a test that calls the checker for every page
ProbeAlways == TRUE

\* len(linksToTest) > 0
HasLinks == Len(linksToTest) > 0

\* if len(linksToTest) > 0 { checkLinkAccessibility(linksToTest) } else return
ProbeCall ==
  /\ phase = "probing"
  /\ cpc = "idle"
  /\ IF HasLinks
       THEN /\ cpc' = "entry"
            /\ links' = linksToTest
            /\ UNCHANGED <<phase, result>>
       ELSE /\ phase' = "done"
            /\ result' = <<Report(<<>>)>>
            /\ UNCHANGED <<cpc, links>>
  /\ UNCHANGED <<fetches, resp, failure, doc, cursor, linksToTest, counts, extracted>>
  /\ UNCHANGED <<idx, wg, semaphore, mu, inaccessible, tasks, finished, servers, handlerVars>>

\* result.InaccessibleLinks = <the value returned>; return result, nil
ProbeReturn ==
  /\ phase = "probing"
  /\ cpc = "returned"
  /\ phase' = "done"
  /\ result' = <<Report(inaccessible)>>
  /\ UNCHANGED <<fetches, resp, failure, doc, cursor, linksToTest, counts, extracted>>
  /\ UNCHANGED <<checkVars, servers, handlerVars>>

-----------------------------------------------------------------------------
(* analyzeHandler *)

NoRequest == [method |-> "-", url |-> "-"]

\* the requests of the model: a method and the form value "url"
Requests ==
  [method : {"GET", "POST"},
   url : {"", "a b", "/a", "ftp://a/", "http:///a", "http://a/", "HTTP://a/"}]

PageData(template, url, error, code, analysis) ==
  [Template |-> template, URL |-> url, Error |-> error, StatusCode |-> code,
   Analysis |-> analysis]

\* a scheme test that accepts every scheme
AnyScheme(u) == TRUE

\* !(parsedURL.Scheme != "http" && parsedURL.Scheme != "https")
SchemeAllowed(u) == Scheme(u) \in {"http", "https"}

\* the handler writes a response and returns without calling the analyzer
Reject(response) ==
  /\ rendered' = <<response>>
  /\ hpc' = "responded"
  /\ phase' = phase

\* analyzeHandler up to the call analyzer.FetchAndAnalyze(parsedURL.String())
Handle ==
  /\ hpc = "received"
  /\ LET u == request.url
     IN IF request.method # "POST"
          THEN Reject(PageData("", "", "Method not allowed", 405, <<>>))
          ELSE IF u = ""
                 THEN Reject(PageData("index.html", "", "URL field cannot be empty.", 0, <<>>))
                 ELSE IF ~ParsesAsRequestURI(u) \/ ~SchemeAllowed(u)
                        THEN Reject(PageData("index.html", "", "Invalid URL: Must be a valid HTTP/HTTPS URL.", 0, <<>>))
                        ELSE IF Host(u) = ""
                               THEN Reject(PageData("index.html", "", "Invalid URL: URL must include a host", 0, <<>>))
                               ELSE /\ hpc' = "called"
                                    /\ phase' = "fetching"
                                    /\ rendered' = rendered
  /\ UNCHANGED <<fetches, resp, failure, result, doc, cursor, linksToTest, counts, extracted>>
  /\ UNCHANGED <<checkVars, servers, request>>

\* analyzeHandler after FetchAndAnalyze has returned
Respond ==
  /\ hpc = "called"
  /\ phase \in {"done", "failed"}
  /\ rendered' =
       IF failure # <<>>
         THEN <<PageData("index.html", request.url, failure[1].Message,
                         failure[1].StatusCode, <<>>)>>
         ELSE <<PageData("results.html", request.url, "", 0, result)>>
  /\ hpc' = "responded"
  /\ UNCHANGED <<fetchVars, checkVars, servers, request>>

-----------------------------------------------------------------------------
(* Specification *)

LongLists ==
  {[i \in 1..n |-> "http://a/p"] : n \in (concurrencyLimit + 1)..(concurrencyLimit + Over)}

InitCommon ==
  /\ fetches = 0
  /\ resp = NoPage
  /\ failure = <<>>
  /\ result = <<>>
  /\ cursor = 0
  /\ linksToTest = <<>>
  /\ counts = [internal |-> 0, external |-> 0]
  /\ HTMLVersion = ""
  /\ PageTitle = ""
  /\ HeadingsCount = <<>>
  /\ ContainsLoginForm = FALSE
  /\ idx = 1
  /\ wg = 0
  /\ semaphore = 0
  /\ mu = FALSE
  /\ inaccessible = <<>>
  /\ tasks = EmptyBag
  /\ finished = EmptyBag
  /\ rendered = <<>>

\* FetchAndAnalyze(pageURL) is called directly, as its tests do
InitAnalyze ==
  /\ phase = "fetching"
  /\ doc \in SeqsUpTo(Nodes, MaxNodes)
  /\ cpc = "idle"
  /\ links = <<>>
  /\ servers = "any"
  /\ request = NoRequest
  /\ hpc = "none"

\* FetchAndAnalyze(pageURL) on a page that is a lone doctype, a lone form, or
\* that has no doctype and a few elements, as TestFetchAndAnalyze_HTMLVersions does
InitExtract ==
  /\ phase = "fetching"
  /\ doc \in {<<d>> : d \in Doctypes} \cup {<<g>> : g \in Forms}
               \cup SeqsUpTo(Elements, MaxNodes)
  /\ cpc = "idle"
  /\ links = <<>>
  /\ servers = "headFailGetOk"
  /\ request = NoRequest
  /\ hpc = "none"

\* the HTTP server calls analyzeHandler with a request
InitHandler ==
  /\ phase = "none"
  /\ doc \in SeqsUpTo(Nodes, MaxNodes)
  /\ cpc = "idle"
  /\ links = <<>>
  /\ servers = "notFound"
  /\ request \in Requests
  /\ hpc = "received"

\* checkLinkAccessibility(links) is called directly, as its test does
InitCheck ==
  /\ phase = "none"
  /\ doc = <<>>
  /\ cpc = "entry"
  /\ \/ links \in SeqsUpTo(URLs, MaxLinks) /\ servers = "any"
     \/ links \in LongLists /\ servers \in ServerKinds \ {"any"}
  /\ request = NoRequest
  /\ hpc = "none"

Init == InitCommon /\ (InitAnalyze \/ InitExtract \/ InitHandler \/ InitCheck)

Next ==
  \/ \E r \in PageAnswers : Fetch(r)
  \/ Validate
  \/ ParseBody
  \/ VisitNode
  \/ TraversalEnd
  \/ ProbeCall
  \/ ProbeReturn
  \/ Handle
  \/ Respond
  \/ CheckEntry
  \/ LoopNext
  \/ Acquire
  \/ Wait
  \/ \E t \in BagToSet(tasks) : TaskStart(t)
  \/ \E t \in BagToSet(tasks) : \E r \in HeadAnswers : HeadReturns(t, r)
  \/ \E t \in BagToSet(tasks) : \E r \in GetAnswers : GetReturns(t, r)
  \/ \E t \in BagToSet(tasks) : Lock(t)
  \/ \E t \in BagToSet(tasks) : AppendUnlock(t)
  \/ \E t \in BagToSet(tasks) : Release(t)
  \/ \E t \in BagToSet(tasks) : Done(t)

Spec == Init /\ [][Next]_vars

-----------------------------------------------------------------------------
(* Vocabulary of the properties *)

Returned == cpc = "returned"

Running == BagToSet(tasks)
Ended == BagToSet(finished)

Occurrences(u) == Cardinality({i \in DOMAIN links : links[i] = u})
Listed(P(_)) == Cardinality({i \in DOMAIN inaccessible : P(inaccessible[i])})

HoldsSlot(t) == t.pc # "wgdone"
InFlight(t) == t.pc \in {"head", "get"}

\* the records of the returned list are those the ended goroutines appended
ResultIsLog ==
  \A r \in {inaccessible[i] : i \in DOMAIN inaccessible}
             \cup {f.out[1] : f \in {g \in Ended : g.out # <<>>}} :
     Listed(LAMBDA x : x = r) = BagSize(finished, LAMBDA f : f.out = <<r>>)

\* every link of the input has had its goroutine, and all of them have ended
AllEnded ==
  /\ tasks = EmptyBag
  /\ \A u \in URLs : BagSize(finished, LAMBDA f : f.l = u) = Occurrences(u)

\* the answer that decided the probe
Deciding(f) == IF f.get # NoResp THEN f.get ELSE f.head

ProbeFailed(f) ==
  \/ f.reqs = <<>>
  \/ Deciding(f).err # ""
  \/ Deciding(f).status >= 400

CheckStep ==
  \/ CheckEntry
  \/ LoopNext
  \/ Acquire
  \/ Wait
  \/ \E t \in BagToSet(tasks) : TaskStart(t)
  \/ \E t \in BagToSet(tasks) : \E r \in HeadAnswers : HeadReturns(t, r)
  \/ \E t \in BagToSet(tasks) : \E r \in GetAnswers : GetReturns(t, r)
  \/ \E t \in BagToSet(tasks) : Lock(t)
  \/ \E t \in BagToSet(tasks) : AppendUnlock(t)
  \/ \E t \in BagToSet(tasks) : Release(t)
  \/ \E t \in BagToSet(tasks) : Done(t)

\* checkLinkAccessibility(links) is called directly, as its test does
InitFair ==
  /\ phase = "none"
  /\ doc = <<>>
  /\ cpc = "entry"
  /\ \/ links \in SeqsUpTo(URLs, MaxFairLinks) /\ servers = "any"
     \/ links \in LongLists /\ servers \in ServerKinds \ {"any"}
  /\ request = NoRequest
  /\ hpc = "none"

InitChecker == InitCommon /\ InitFair

\* checkLinkAccessibility with a scheduler that keeps running a goroutine that
\* can run, and requests that all return
CheckerSpec == InitChecker /\ [][CheckStep]_vars /\ WF_vars(CheckStep)

-----------------------------------------------------------------------------
(* Properties of checkLinkAccessibility *)

\* C1: at most 10 probe goroutines hold a semaphore slot at any time, and so at
\* most 10 HEAD/GET requests are in flight, also for lists longer than 10.
C1_AtMostTenInFlight ==
  /\ BagSize(tasks, HoldsSlot) <= 10
  /\ BagSize(tasks, InFlight) <= 10
  /\ semaphore <= 10

\* ten requests are in flight and the loop is blocked on the full semaphore
C1_Witness ==
  /\ Len(links) > 10
  /\ cpc = "acquire"
  /\ BagSize(tasks, InFlight) = 10

\* C2: checkLinkAccessibility returns only after a goroutine has been spawned
\* for every link and every goroutine has ended; nothing is appended after the
\* return.
C2_ReturnsAfterAllProbes ==
  /\ [](Returned => AllEnded /\ idx = Len(links) + 1 /\ wg = 0)
  /\ [][Returned => inaccessible' = inaccessible /\ tasks' = tasks]_vars

\* a call with more links than slots has returned, every link recorded
C2_Witness ==
  /\ Returned
  /\ Len(links) > 10
  /\ Len(inaccessible) = Len(links)

\* C3: every probe goroutine gives its slot back exactly once on every exit
\* path, and before its wg.Done(); when the call returns no slot is held.
C3_SlotReleasedOnce ==
  /\ \A f \in Ended : f.rel = 1
  /\ \A t \in Running : t.rel = (IF t.pc = "wgdone" THEN 1 ELSE 0)
  /\ semaphore = BagSize(tasks, HoldsSlot)
  /\ Returned => semaphore = 0

\* a call has returned in which one HEAD timed out and one GET fallback failed
C3_Witness ==
  /\ Returned
  /\ \E f \in Ended : f.head = NetErr("timeout") /\ f.reqs = <<"HEAD">>
  /\ \E f \in Ended : f.reqs = <<"HEAD", "GET">> /\ f.get = Status(404)

\* C4: a link whose HEAD is answered with status s >= 400 other than 405 gets
\* exactly one record, with status s; a link whose HEAD is answered with a
\* status below 400 gets no record.
C4_HeadStatusDecides ==
  Returned =>
    /\ ResultIsLog
    /\ \A f \in Ended :
         f.head.err = "" =>
           /\ f.head.status >= 400 /\ f.head.status # 405 =>
                /\ Len(f.out) = 1
                /\ f.out[1].URL = f.l
                /\ f.out[1].StatusCode = f.head.status
           /\ f.head.status < 400 => f.out = <<>>

\* one link answered 404 and one answered 200: only the first is listed
C4_Witness ==
  /\ Returned
  /\ \E f \in Ended : f.head = Status(404)
  /\ \E f \in Ended : f.head = Status(200)
  /\ Len(inaccessible) = 1
  /\ inaccessible[1].StatusCode = 404

\* C5: a link whose HEAD is answered 405 gets exactly one GET, and the GET alone
\* decides: below 400 no record, >= 400 one record with the GET status, a
\* network failure one record with status 0.
C5_GetDecidesAfter405 ==
  Returned =>
    /\ ResultIsLog
    /\ \A f \in Ended :
         f.head = Status(405) =>
           /\ f.reqs = <<"HEAD", "GET">>
           /\ f.get # NoResp
           /\ f.get.err = "" /\ f.get.status < 400 => f.out = <<>>
           /\ f.get.err = "" /\ f.get.status >= 400 =>
                /\ Len(f.out) = 1
                /\ f.out[1].URL = f.l
                /\ f.out[1].StatusCode = f.get.status
           /\ f.get.err # "" =>
                /\ Len(f.out) = 1
                /\ f.out[1].URL = f.l
                /\ f.out[1].StatusCode = 0

\* HEAD is rejected with 405, the GET is answered 200, nothing is listed
C5_Witness ==
  /\ Returned
  /\ Len(links) = 1
  /\ \E f \in Ended : f.head = Status(405) /\ f.get = Status(200)
  /\ inaccessible = <<>>

\* C6 as stated: a HEAD that fails at the network level is recorded with status
\* 0 and never followed by a GET; a GET is issued only after a HEAD answered 405.
C6_NoGetAfterHeadError ==
  \A f \in Ended :
    /\ f.head.err \in ErrKinds =>
         /\ f.reqs = <<"HEAD">>
         /\ Len(f.out) = 1
         /\ f.out[1].StatusCode = 0
    /\ f.reqs = <<"HEAD", "GET">> => f.head = Status(405)

\* C6 as amended: a HEAD failure whose error text (which holds the URL) contains
\* "timeout" or "refused" is recorded with status 0 and no GET is issued; after
\* any other network failure of the HEAD exactly one GET is issued and decides
\* the record; a GET is issued only after a 405 or such an other failure.
C6_GetOnlyAfterOtherHeadError ==
  Returned =>
    /\ ResultIsLog
    /\ \A f \in Ended :
         /\ f.head.err \in ErrKinds /\ ErrWords(f.l, f.head.err) # {} =>
              /\ f.reqs = <<"HEAD">>
              /\ Len(f.out) = 1
              /\ f.out[1].URL = f.l
              /\ f.out[1].StatusCode = 0
         /\ f.head.err \in ErrKinds /\ ErrWords(f.l, f.head.err) = {} =>
              /\ f.reqs = <<"HEAD", "GET">>
              /\ f.get # NoResp
              /\ Len(f.out) = (IF f.get.err # "" \/ f.get.status >= 400 THEN 1 ELSE 0)
              /\ f.out # <<>> =>
                   /\ f.out[1].URL = f.l
                   /\ f.out[1].StatusCode = f.get.status
         /\ f.reqs = <<"HEAD", "GET">> =>
              \/ f.head = Status(405)
              \/ f.head.err \in ErrKinds /\ ErrWords(f.l, f.head.err) = {}

\* one HEAD was refused (no GET), one failed to resolve the host (GET issued)
C6_Witness ==
  /\ Returned
  /\ \E f \in Ended : f.head = NetErr("refused") /\ f.reqs = <<"HEAD">>
  /\ \E f \in Ended : f.head = NetErr("no such host") /\ f.reqs = <<"HEAD", "GET">>

\* C7: whenever the HEAD of a link fails with a network-type error, of any
\* kind, a GET is attempted for that link before it is reported.
C7_GetAfterEveryHeadError ==
  \A f \in Ended : f.head.err \in ErrKinds => f.reqs = <<"HEAD", "GET">>

\* C8: a failed probe never aborts the batch: it becomes one record for its
\* link, every link of the input is probed to its end, and the call can always
\* go on until it returns.
C8_FailureIsARecord ==
  /\ cpc \in {"entry", "loop", "acquire", "wait"} => ENABLED CheckStep
  /\ Returned =>
       /\ AllEnded
       /\ ResultIsLog
       /\ \A f \in Ended :
            /\ f.reqs = <<>> <=> ~CanBuild(f.l)
            /\ ProbeFailed(f) => Len(f.out) = 1 /\ f.out[1].URL = f.l
            /\ ~ProbeFailed(f) => f.out = <<>>

\* a link whose request cannot be built and a link answered 200, both ended
C8_Witness ==
  /\ Returned
  /\ Len(links) = 2
  /\ \E f \in Ended : f.reqs = <<>> /\ Len(f.out) = 1
  /\ \E f \in Ended : f.head = Status(200)
  /\ Len(inaccessible) = 1

\* C9: every record carries the URL of a link of the input, each occurrence of
\* a link gives at most one record, and the list is never longer than the input.
C9_RecordsWithinInput ==
  /\ \A i \in DOMAIN inaccessible : \E j \in DOMAIN links : inaccessible[i].URL = links[j]
  /\ \A u \in URLs : Listed(LAMBDA r : r.URL = u) <= Occurrences(u)
  /\ \A f \in Ended \cup Running : Len(f.out) <= 1
  /\ Len(inaccessible) <= Len(links)

\* the same link twice in the input, both occurrences recorded
C9_Witness ==
  /\ Returned
  /\ Len(links) = 2
  /\ links[1] = links[2]
  /\ Len(inaccessible) = 2

-----------------------------------------------------------------------------
(* Properties of FetchAndAnalyze *)

PhaseMoves ==
  {<<"fetching", "validating">>, <<"validating", "extracting">>,
   <<"extracting", "probing">>, <<"probing", "done">>,
   <<"fetching", "failed">>, <<"validating", "failed">>, <<"extracting", "failed">>,
   <<"none", "fetching">>}

\* C10: a FetchAndAnalyze call moves only along fetching -> validating ->
\* extracting -> probing -> done; failed is entered only from the first three
\* and never once probing has started; done and failed are terminal; the page
\* is fetched exactly once.
C10_PhaseMachine ==
  /\ [](/\ fetches <= 1
        /\ phase \notin {"none", "fetching"} => fetches = 1
        /\ phase = "failed" => cpc = "idle" /\ tasks = EmptyBag /\ result = <<>>
        /\ phase = "done" => failure = <<>> /\ Len(result) = 1)
  /\ [][/\ phase' # phase => <<phase, phase'>> \in PhaseMoves
        /\ phase \in {"done", "failed"} => UNCHANGED <<fetches, result, failure>>]_vars

\* a call has gone through probing and is done, with an unreachable link
C10_Witness ==
  /\ phase = "done"
  /\ fetches = 1
  /\ Len(result[1].InaccessibleLinks) = 1

\* C11: a page fetch that fails at the network level makes the call fail with
\* status code 0, and a page that answers with a status of 400 or more makes it
\* fail with exactly that status, whatever the Content-Type; in both cases
\* there is no report.
C11_FetchFailureStatus ==
  /\ (fetches > 0 /\ resp.err # "")
       => /\ phase = "failed"
          /\ Len(failure) = 1 /\ failure[1].StatusCode = 0
          /\ result = <<>>
  /\ (fetches > 0 /\ resp.err = "" /\ resp.status >= 400)
       => /\ phase = "failed"
          /\ Len(failure) = 1 /\ failure[1].StatusCode = resp.status
          /\ result = <<>>

C11_Witness ==
  /\ phase = "failed"
  /\ resp.err = "" /\ resp.status = 404 /\ resp.ctype = "text/html; charset=utf-8"
  /\ failure[1].StatusCode = 404

\* C12: a page that answers with a status below 400 and a Content-Type that is
\* not HTML makes the call fail with the response's status and the
\* content-type message, with no report and no link probe; and a call that has
\* returned has exactly one of a report and a failure.
C12_NonHTMLFails ==
  /\ (fetches > 0 /\ resp.err = "" /\ resp.status < 400
         /\ resp.ctype = "application/json" /\ phase # "validating")
       => /\ phase = "failed"
          /\ failure = <<AnalysisError("URL is not an HTML page", resp.status)>>
          /\ result = <<>>
          /\ cpc = "idle" /\ tasks = EmptyBag /\ finished = EmptyBag
  /\ phase \in {"done", "failed"} => Len(result) + Len(failure) = 1
  /\ phase \notin {"done", "failed"} => result = <<>> /\ failure = <<>>

C12_Witness ==
  /\ phase = "failed"
  /\ resp.err = "" /\ resp.status = 200 /\ resp.ctype = "application/json"
  /\ failure[1].Message = "URL is not an HTML page"

C13_ValidRequests == [method : {"POST"}, url : {"http://a/", "HTTP://a/"}]

\* C13: analyzeHandler calls FetchAndAnalyze only for a POST request whose url
\* form value is non-empty, parses as a request URI, has the scheme http or
\* https and a non-empty host; for every other request the page is not
\* fetched and no link is probed.
C13_OnlyValidRequestsAnalyzed ==
  (hpc # "none" /\ request \notin C13_ValidRequests)
     => /\ hpc \in {"received", "responded"}
        /\ phase = "none"
        /\ fetches = 0
        /\ cpc = "idle" /\ tasks = EmptyBag /\ finished = EmptyBag

\* a POST with an ftp URL has been answered with the error page
C13_Witness ==
  /\ hpc = "responded"
  /\ request = [method |-> "POST", url |-> "ftp://a/"]
  /\ rendered[1].Template = "index.html"
  /\ fetches = 0

-----------------------------------------------------------------------------
(* Properties of the extraction *)

DoctypeNodes == {i \in DOMAIN doc : doc[i].tag = "!doctype"}
Extracted == phase \in {"probing", "done"}
IsBlank(id) == id.kind \in {"empty", "blank"}

\* C14: a document with no doctype node gets the version label
\* "Unknown or No Doctype"; the label of a report is never empty.
C14_NoDoctypeFallback ==
  /\ (Extracted /\ DoctypeNodes = {}) => HTMLVersion = "Unknown or No Doctype"
  /\ Extracted => HTMLVersion # ""
  /\ phase = "done" => result[1].HTMLVersion = HTMLVersion

\* a page of two elements and no doctype has been reported
C14_Witness ==
  /\ phase = "done"
  /\ Len(doc) = 2 /\ DoctypeNodes = {}
  /\ result[1].HTMLVersion = "Unknown or No Doctype"

\* C15 as stated: the label is "HTML5" if and only if the document has a
\* doctype node named "html" in any letter case whose public id and system id
\* are both empty.
C15_HTML5IffEmptyIDs ==
  Extracted =>
    (HTMLVersion = "HTML5"
       <=> \E i \in DoctypeNodes :
             /\ doc[i].name \in {"html", "HTML"}
             /\ doc[i].public = EmptyID /\ doc[i].system = EmptyID)

\* C15: the label is "HTML5" if and only if the document has a doctype node
\* named "html" in any letter case whose public id and system id are both
\* empty once surrounding white space is trimmed.
C15_HTML5IffBlankIDs ==
  Extracted =>
    (HTMLVersion = "HTML5"
       <=> \E i \in DoctypeNodes :
             /\ doc[i].name \in {"html", "HTML"}
             /\ IsBlank(doc[i].public) /\ IsBlank(doc[i].system))

\* <!DOCTYPE HTML SYSTEM " "> has been labelled HTML5
C15_Witness ==
  /\ phase = "done"
  /\ DoctypeNodes = {1}
  /\ doc[1].name = "HTML" /\ doc[1].public = EmptyID /\ doc[1].system = BlankID
  /\ result[1].HTMLVersion = "HTML5"

\* the ordered rules 1 to 7 of the specification, first match wins
C16_SpecRules(d) ==
  LET name == IF d.name = "HTML" THEN "html" ELSE d.name
      pub(m) == m \in d.public.has
      sys(m) == m \in d.system.has
  IN IF name # "html" THEN "Unknown Doctype (" \o name \o ")"
     ELSE IF d.public = EmptyID /\ d.system = EmptyID THEN "HTML5"
     ELSE IF pub("XHTML 1.0 Strict") THEN "XHTML 1.0 Strict"
     ELSE IF pub("XHTML 1.0 Transitional") THEN "XHTML 1.0 Transitional"
     ELSE IF pub("HTML 4.01//EN") /\ (pub("Strict") \/ sys("strict.dtd"))
       THEN "HTML 4.01 Strict"
     ELSE IF pub("HTML 4.01 Transitional//EN") THEN "HTML 4.01 Transitional"
     ELSE IF d.public # EmptyID THEN "Unknown HTML (with Public ID)"
     ELSE "HTML (Unknown Version)"

\* the rules with three amendments: an empty name gives the no-doctype
\* fallback, identifiers are trimmed before they are tested, and the system
\* id "strict.dtd" is looked at only after the Transitional rule
C16_AmendedRules(d) ==
  LET name == IF d.name = "HTML" THEN "html" ELSE d.name
      pub(m) == m \in d.public.has
      sys(m) == m \in d.system.has
  IN IF name = "" THEN "Unknown or No Doctype"
     ELSE IF name # "html" THEN "Unknown Doctype (" \o name \o ")"
     ELSE IF IsBlank(d.public) /\ IsBlank(d.system) THEN "HTML5"
     ELSE IF pub("XHTML 1.0 Strict") THEN "XHTML 1.0 Strict"
     ELSE IF pub("XHTML 1.0 Transitional") THEN "XHTML 1.0 Transitional"
     ELSE IF pub("HTML 4.01//EN") /\ pub("Strict") THEN "HTML 4.01 Strict"
     ELSE IF pub("HTML 4.01 Transitional//EN") THEN "HTML 4.01 Transitional"
     ELSE IF pub("HTML 4.01//EN") /\ sys("strict.dtd") THEN "HTML 4.01 Strict"
     ELSE IF ~IsBlank(d.public) THEN "Unknown HTML (with Public ID)"
     ELSE "HTML (Unknown Version)"

\* C16 as stated: for every doctype name and every combination of containment
\* facts about the identifiers, the label is that of the first matching rule
\* of the specification's list 1 to 7.
C16_LabelBySpecRules ==
  \A i \in DoctypeNodes : Extracted => HTMLVersion = C16_SpecRules(doc[i])

\* C16: for every doctype name and every combination of containment facts
\* about the identifiers, the label is that of the first matching rule of the
\* amended list; a public id with "HTML 4.01//EN" and a system id with
\* "strict.dtd" is "HTML 4.01 Strict" unless the public id also contains
\* "HTML 4.01 Transitional//EN", and a non-empty name other than "html" gets
\* the unknown-doctype label.
C16_LabelByAmendedRules ==
  \A i \in DoctypeNodes : Extracted => HTMLVersion = C16_AmendedRules(doc[i])

\* public id "...HTML 4.01//EN" with system id "...strict.dtd" is labelled Strict
C16_Witness ==
  /\ phase = "done"
  /\ DoctypeNodes = {1}
  /\ doc[1].name = "html"
  /\ doc[1].public = [kind |-> "text", has |-> {"HTML 4.01//EN"}]
  /\ doc[1].system = [kind |-> "text", has |-> {"strict.dtd"}]
  /\ result[1].HTMLVersion = "HTML 4.01 Strict"

TitlesWithText == {i \in DOMAIN doc : doc[i].tag = "title" /\ doc[i].text # <<>>}

\* C17 as stated: with several title elements that have a text child, the
\* title of the report is the trimmed text of the first one in document order.
C17_FirstTitleWins ==
  (phase = "done" /\ TitlesWithText # {})
     => LET first == CHOOSE i \in TitlesWithText : \A j \in TitlesWithText : i <= j
        IN result[1].PageTitle = TrimSpace(doc[first].text[1])

HeadingsOf(level) == {i \in DOMAIN doc : doc[i].tag = level}

\* C18: after extraction the counter of each heading level h1..h6 is the
\* number of elements of that level in the document, and the keys of the map
\* are exactly the levels that occur.
C18_HeadingCounts ==
  Extracted =>
    /\ DOMAIN HeadingsCount = {level \in HeadingTags : HeadingsOf(level) # {}}
    /\ \A level \in DOMAIN HeadingsCount :
         HeadingsCount[level] = Cardinality(HeadingsOf(level))
    /\ phase = "done" => result[1].HeadingsCount = HeadingsCount

\* two h1 elements have been counted and no other level has an entry
C18_Witness ==
  /\ phase = "done"
  /\ DOMAIN result[1].HeadingsCount = {"h1"}
  /\ result[1].HeadingsCount["h1"] = 2

C19_SkippedHrefs == {"", "  ", "#top", "JavaScript:void(0)", "mailto:x", "TEL:1"}

IsLinkElement(n) == n.tag \in {"a", "link"}
Probes == BagCardinality(tasks) + BagCardinality(finished)

\* C19: visiting an anchor or link element whose trimmed href is empty, starts
\* with "#" or starts in any letter case with "javascript:", "mailto:" or
\* "tel:" changes neither link count and adds nothing to the probe list, and
\* no more links are probed than there are other anchor and link elements.
C19_SkippedHrefsNotCounted ==
  /\ [](phase # "none" =>
          LET others == {i \in DOMAIN doc : IsLinkElement(doc[i])
                                             /\ doc[i].href \notin C19_SkippedHrefs}
              seen == {i \in others : i < cursor}
          IN /\ Len(linksToTest) <= Cardinality(seen)
             /\ counts.internal + counts.external <= Cardinality(seen)
             /\ Probes <= Cardinality(others))
  /\ [][(/\ phase = "extracting" /\ cursor \in DOMAIN doc /\ cursor' = cursor + 1
          /\ IsLinkElement(doc[cursor]) /\ doc[cursor].href \in C19_SkippedHrefs)
           => UNCHANGED <<linksToTest, counts>>]_vars

\* a page of a "JavaScript:" anchor and a "TEL:" anchor is done without a probe
C19_Witness ==
  /\ phase = "done"
  /\ Len(doc) = 2
  /\ doc[1] = [tag |-> "a", href |-> "JavaScript:void(0)"]
  /\ doc[2] = [tag |-> "a", href |-> "TEL:1"]
  /\ result[1].InternalLinksCount = 0 /\ result[1].ExternalLinksCount = 0
  /\ Probes = 0

SameSite(u) ==
  /\ Scheme(u) = Scheme(pageURL)
  /\ ToLower(Host(u)) = ToLower(Host(pageURL))

\* C20 as stated: a resolved link is counted internal if and only if its
\* scheme is the base page's scheme and its host is the base page's host
\* compared without regard to letter case; otherwise it is counted external.
C20_InternalIffSameSite ==
  /\ counts.internal = Cardinality({i \in DOMAIN linksToTest : SameSite(linksToTest[i])})
  /\ counts.external = Cardinality({i \in DOMAIN linksToTest : ~SameSite(linksToTest[i])})

-----------------------------------------------------------------------------
(* Properties of detectLoginForm *)

FormNodes == {i \in DOMAIN doc : doc[i].tag = "form"}
Within(form) == {form.sub[j] : j \in DOMAIN form.sub}
PasswordInputs == {c \in Inputs : c.type = "password"}
UserLikeInputs ==
  {[tag |-> "input", type |-> "text", name |-> "username"],
   [tag |-> "input", type |-> "Email", name |-> "Email"]}
PinInputs == {c \in Inputs : c.name = "pin"}
SubmitButtons == {c \in Buttons : c.type \in {"submit", ""}}

\* the criterion of the claims, on all the descendants of the form
LooksLikeLogin(form) ==
  \/ /\ Within(form) \cap PasswordInputs # {}
     /\ Within(form) \cap UserLikeInputs # {}
     /\ Within(form) \cap SubmitButtons # {}
  \/ /\ Within(form) \cap PinInputs # {}
     /\ Within(form) \cap SubmitButtons # {}

\* C21: a form is classified as a login form only if its descendants give a
\* password input, a user-like text/email input and a submit button, or a
\* pin-named input and a submit button; a form with a password input and a
\* submit button but no user-like field and no pin field is never classified.
C21_LoginOnlyWithSignals ==
  Extracted =>
    /\ ContainsLoginForm => \E i \in FormNodes : LooksLikeLogin(doc[i])
    /\ (/\ FormNodes # {}
        /\ \A i \in FormNodes : Within(doc[i]) \cap (UserLikeInputs \cup PinInputs) = {})
         => ~ContainsLoginForm
    /\ phase = "done" => result[1].ContainsLoginForm = ContainsLoginForm

\* a form of a username input, a password input and a submit button is reported
C21_Witness ==
  /\ phase = "done"
  /\ FormNodes = {1}
  /\ doc[1].sub = <<[tag |-> "input", type |-> "text", name |-> "username"],
                    [tag |-> "input", type |-> "password", name |-> "secret"],
                    [tag |-> "button", type |-> "submit"]>>
  /\ result[1].ContainsLoginForm

\* C22 as stated: every form that contains anywhere in its subtree a user-like
\* input, a password input and a submit button (or a pin-named input and a
\* submit button) is classified as a login form, whatever the order.
C22_OrderIrrelevant ==
  Extracted => \A i \in FormNodes : LooksLikeLogin(doc[i]) => ContainsLoginForm

-----------------------------------------------------------------------------
(* Properties of the probes, continued *)

\* C23: the first request for a link is a HEAD; a GET is issued for a link at
\* most once and only after the HEAD for that link has completed; no link
\* gets more than two requests.
C23_HeadFirst ==
  \A t \in Running \cup Ended :
    /\ t.reqs \in {<<>>, <<"HEAD">>, <<"HEAD", "GET">>}
    /\ t.reqs = <<"HEAD", "GET">> => t.head # NoResp
    /\ t.pc = "head" => t.reqs = <<"HEAD">> /\ t.head = NoResp /\ t.get = NoResp
    /\ t.pc = "get" => t.reqs = <<"HEAD", "GET">> /\ t.get = NoResp
    /\ t.get # NoResp => t.reqs = <<"HEAD", "GET">>

\* a GET is in flight after a HEAD that was answered with 405
C23_Witness ==
  \E t \in Running :
    /\ t.pc = "get"
    /\ t.reqs = <<"HEAD", "GET">>
    /\ t.head = Status(405)

-----------------------------------------------------------------------------
(* Properties of the extraction, continued *)

\* C24: at every point of the traversal and in the report, the internal and
\* external counts add up to the length of the probe list; a link that is
\* resolved adds one to exactly one count and one entry to the list, and a
\* link whose resolution fails adds to neither.
C24_CountsMatchProbeList ==
  /\ [](/\ counts.internal + counts.external = Len(linksToTest)
        /\ phase = "done" =>
             result[1].InternalLinksCount + result[1].ExternalLinksCount
               = Len(linksToTest))
  /\ [][/\ \/ UNCHANGED <<linksToTest, counts>>
           \/ /\ Len(linksToTest') = Len(linksToTest) + 1
              /\ SubSeq(linksToTest', 1, Len(linksToTest)) = linksToTest
              /\ \/ /\ counts'.internal = counts.internal + 1
                    /\ counts'.external = counts.external
                 \/ /\ counts'.internal = counts.internal
                    /\ counts'.external = counts.external + 1
        /\ (/\ phase = "extracting" /\ cursor \in DOMAIN doc /\ cursor' = cursor + 1
            /\ IsLinkElement(doc[cursor]) /\ doc[cursor].href = ":bad")
             => UNCHANGED <<linksToTest, counts>>]_vars

\* a page with an unresolvable href and a resolvable one is reported
C24_Witness ==
  /\ phase = "done"
  /\ doc = <<[tag |-> "a", href |-> ":bad"], [tag |-> "a", href |-> "/p"]>>
  /\ linksToTest = <<"http://a/p">>
  /\ result[1].InternalLinksCount = 1 /\ result[1].ExternalLinksCount = 0

InCritical == BagSize(tasks, LAMBDA t : t.pc = "crit")
Recorded(t) == t.out # <<>> /\ t.pc \in {"release", "wgdone", "ended"}

\* C25: at no time are two probe goroutines between mu.Lock and mu.Unlock;
\* a goroutine that took the mutex has released it before it returns; and no
\* record is lost: the records in the slice are as many as the probes that
\* decided unreachable and have appended, and on return as many as the probes
\* that decided unreachable.
C25_AppendsExclusive ==
  /\ InCritical <= 1
  /\ mu <=> InCritical = 1
  /\ Len(inaccessible) = BagSize(tasks, Recorded) + BagSize(finished, Recorded)
  /\ Returned => /\ ~mu
                 /\ Len(inaccessible) = BagSize(finished, LAMBDA f : f.out # <<>>)

\* one goroutine is in the critical section while another waits for the mutex
C25_Witness ==
  /\ \E t \in Running : t.pc = "crit"
  /\ \E t \in Running : t.pc = "lock"
  /\ Len(inaccessible) = 1

CheckerUntouched ==
  /\ cpc = "idle"
  /\ tasks = EmptyBag /\ finished = EmptyBag
  /\ semaphore = 0 /\ wg = 0
  /\ inaccessible = <<>>

\* C26: no probe exists before the traversal has finished and the link list
\* is complete; when the traversal found no link the checker is not called
\* (no goroutine, no slot taken) and the report's unreachable list is empty.
C26_ProbesAfterTraversal ==
  /\ (hpc # "none" \/ phase \in {"fetching", "validating", "extracting", "failed"})
       => (phase \notin {"probing", "done"} => CheckerUntouched)
  /\ (phase # "none" /\ ~CheckerUntouched)
       => /\ phase \in {"probing", "done"}
          /\ cursor = Len(doc) + 1
          /\ links = linksToTest
  /\ (phase \in {"probing", "done"} /\ linksToTest = <<>>)
       => /\ CheckerUntouched
          /\ phase = "done" => result[1].InaccessibleLinks = <<>>

\* a page whose two anchors give no link is reported without a probe
C26_Witness ==
  /\ phase = "done"
  /\ doc = <<[tag |-> "a", href |-> "#top"], [tag |-> "a", href |-> ":bad"]>>
  /\ CheckerUntouched
  /\ result[1].InaccessibleLinks = <<>>

\* C27: if every issued request eventually returns, checkLinkAccessibility
\* eventually returns for every list, also one longer than the cap of 10: the
\* dispatch loop never waits forever for a slot and wg.Wait() is released.
C27_CheckerReturns ==
  /\ <>Returned
  /\ (cpc = "acquire") ~> (cpc = "loop")
  /\ (cpc = "wait") ~> Returned

\* a call with more links than slots has returned after waiting for a slot
C27_Witness ==
  /\ Returned
  /\ Len(links) > concurrencyLimit
  /\ AllEnded
  /\ semaphore = 0 /\ wg = 0

\* what the outcomes of the requests of a probe determine: the URL and the
\* status code of its record when it failed
Outcome(f) == <<f.l, Deciding(f).status>>
Key(r) == <<r.URL, r.StatusCode>>

\* C28: the multiset of records returned is fixed by the links and by the
\* outcomes of their HEAD and GET requests, whatever the interleaving of the
\* probe goroutines: each probe that failed gives one record with its URL and
\* the status its outcome decides, and nothing else is returned; only the
\* order of the records is left open.
C28_RecordsFixedByOutcomes ==
  Returned =>
    /\ ResultIsLog
    /\ \A k \in {Key(inaccessible[i]) : i \in DOMAIN inaccessible}
                \cup {Outcome(f) : f \in {g \in Ended : ProbeFailed(g)}} :
         Listed(LAMBDA r : Key(r) = k)
           = BagSize(finished, LAMBDA f : ProbeFailed(f) /\ Outcome(f) = k)

\* two different links have both failed and the record of the second link
\* comes first in the returned list
C28_Witness ==
  /\ Returned
  /\ Len(links) = 2 /\ links[1] # links[2]
  /\ Len(inaccessible) = 2
  /\ inaccessible[1].URL = links[2]
  /\ inaccessible[2].URL = links[1]

====
